---- MODULE Spec2Model ----
(***************************************************************************)
(* The user-registration server (server.js, listed in WALKTHROUGH.md):     *)
(* one sql.js table `users` held in memory, exported to users.db after     *)
(* every mutation, and six Express handlers over it.                       *)
(***************************************************************************)
EXTENDS Integers, Sequences, FiniteSets

VARIABLES
    db,         \* rows of table users in the in-memory sql.js database
    seq,        \* sqlite_sequence.seq of table users (AUTOINCREMENT)
    file,       \* the image last written to users.db
    clock,      \* CURRENT_TIMESTAMP, in ticks
    req,        \* the request handled last
    resp,       \* the response sent to it
    assigned,   \* history: every id a row has ever been given
    removed,    \* history: the rows the last request asked to delete
    disk,       \* whether fs.writeFileSync can write users.db: "ok" or "full"
    calls,      \* per API client: the create it has sent and the answer to it
    ui,         \* the page: submit button, form, message and user-info panel
    fetches,    \* the page's fetch calls under way, each with its handler
    test        \* the test run: suite, test, its position, createdUserId

vars == <<db, seq, file, clock, req, resp, assigned, removed, disk, calls,
          ui, fetches, test>>

\* What the server does not own.
clientVars == <<calls, ui, fetches, test>>

----------------------------------------------------------------------------
(* Bounds of the model                                                     *)

\* Largest id the store hands out before the model stops inserting.
MaxSeq == 3
\* Last tick of the clock.
MaxClock == 1
\* Most fetch calls the page is let to have under way.
MaxFetches == 2
----------------------------------------------------------------------------
(* Values                                                                  *)

MinAge == 1
MaxAge == 150

\* A JavaScript value, as much of it as the handlers look at.
Undefined == [t |-> "undefined", n |-> 0, s |-> ""]
Null == [t |-> "null", n |-> 0, s |-> ""]
NaN == [t |-> "NaN", n |-> 0, s |-> ""]
Num(n) == [t |-> "number", n |-> n, s |-> ""]
Str(s) == [t |-> "string", n |-> 0, s |-> s]

Usernames == {"alice", "bob"}
Emails == {"a@x.io", "b@x.io"}
Ages == {-1, 0, 1, 150, 151}

\* What a request body may carry in each field.
UsernameInputs == {Undefined, Str("")} \cup {Str(u) : u \in Usernames}
EmailInputs == {Undefined, Str("")} \cup {Str(e) : e \in Emails}
AgeInputs == {Undefined} \cup {Num(a) : a \in Ages}

DigitChar(d) ==
    CASE d = 0 -> "0" [] d = 1 -> "1" [] d = 2 -> "2" [] d = 3 -> "3"
      [] d = 4 -> "4" [] d = 5 -> "5" [] d = 6 -> "6" [] d = 7 -> "7"
      [] d = 8 -> "8" [] d = 9 -> "9"

\* `${id}` : a non-negative integer written in decimal.
RECURSIVE ToString(_)
ToString(n) ==
    IF n < 10 THEN <<DigitChar(n)>>
    ELSE Append(ToString(n \div 10), DigitChar(n % 10))

\* The :id path parameters requests carry: ids as the clients write them, and
\* text around or instead of a number.
Params ==
    {ToString(i) : i \in 1..MaxSeq}
      \cup {<<"1", "2">>, <<"2", "x">>, <<"x", "1">>, <<"0", "x", "1">>, <<"x">>}

\* !v : JavaScript's falsy values.
Falsy(v) ==
    \/ v.t \in {"undefined", "null", "NaN"}
    \/ v.t = "number" /\ v.n = 0
    \/ v.t = "string" /\ v.s = ""

----------------------------------------------------------------------------
(* parseInt                                                                *)

DigitValue(c) ==
    CASE c = "0" -> 0 [] c = "1" -> 1 [] c = "2" -> 2 [] c = "3" -> 3
      [] c = "4" -> 4 [] c = "5" -> 5 [] c = "6" -> 6 [] c = "7" -> 7
      [] c = "8" -> 8 [] c = "9" -> 9 [] OTHER -> -1

\* The value of the longest prefix of s made of digits, from accumulator acc;
\* -1 when s starts with no digit.
RECURSIVE LeadingDigits(_, _, _, _)
LeadingDigits(s, radix, acc, seen) ==
    IF s # <<>> /\ DigitValue(Head(s)) >= 0
    THEN LeadingDigits(Tail(s), radix, acc * radix + DigitValue(Head(s)), TRUE)
    ELSE IF seen THEN acc ELSE -1

\* parseInt(s) with no radix: a 0x prefix selects base 16, parsing stops at the
\* first character that is no digit, and no digit at all gives NaN.
ParseInt(s) ==
    LET hex == Len(s) >= 2 /\ s[1] = "0" /\ s[2] \in {"x", "X"}
        v == IF hex THEN LeadingDigits(SubSeq(s, 3, Len(s)), 16, 0, FALSE)
                    ELSE LeadingDigits(s, 10, 0, FALSE)
    IN  IF v < 0 THEN NaN ELSE Num(v)

----------------------------------------------------------------------------
(* The store: table users and users.db                                     *)

Max(S) == CHOOSE m \in S : \A x \in S : x <= m

\* db.export(): the bytes written to users.db are the table and its sequence.
Export(rows, s) == [rows |-> rows, seq |-> s]

\* saveDatabase()
SaveDatabase(rows, s) == Export(rows, s)

\* Mutant: fs.writeFile, which returns before the file is written.
WriteFilePending(state, current, buffer) == current

\* fs.writeFileSync(dbPath, buffer): the file holds the buffer when the call
\* returns; when the write fails the call throws and the file is as it was.
WriteFileSync(state, current, buffer) ==
    IF state = "ok" THEN buffer ELSE current

\* The message of the error a failed write throws.
WriteError == "ENOSPC: no space left on device, write"

\* Mutant: only the username column is UNIQUE.
UniqueUsernameOnly(rows, username, email) ==
    \E r \in rows : r.username = username

\* Mutant: only the email column is UNIQUE.
UniqueEmailOnly(rows, username, email) ==
    \E r \in rows : r.email = email

\* username TEXT NOT NULL UNIQUE, email TEXT NOT NULL UNIQUE: the INSERT throws
\* 'UNIQUE constraint failed' when a row has the username or the email.
UniqueConstraintFailed(rows, username, email) ==
    \E r \in rows : r.username = username \/ r.email = email

\* Mutant: INTEGER PRIMARY KEY without AUTOINCREMENT, one more than the
\* largest id now in the table.
NextRowidNoSequence(rows, s) == Max({0} \cup {r.id : r \in rows}) + 1

\* id INTEGER PRIMARY KEY AUTOINCREMENT: one more than the largest id the
\* table has ever held, which sqlite_sequence remembers across deletes.
NextRowid(rows, s) == Max({s} \cup {r.id : r \in rows}) + 1

\* Mutant: created_at has no DEFAULT CURRENT_TIMESTAMP.
InsertedRowNoTimestamp(rows, s, now, username, email, age) ==
    [id |-> Max({s} \cup {r.id : r \in rows}) + 1, username |-> username,
     email |-> email, age |-> age, created_at |-> 0]

\* INSERT INTO users (username, email, age) VALUES (?, ?, ?)
InsertedRow(rows, s, now, username, email, age) ==
    [id |-> NextRowid(rows, s), username |-> username, email |-> email,
     age |-> age, created_at |-> now]

\* Mutant: WHERE id >= ?
SelectByIdAtLeast(rows, id) ==
    IF id.t = "number" THEN {r \in rows : r.id >= id.n} ELSE {}

\* SELECT * FROM users WHERE id = ? : a NaN binds as NULL and matches no row.
SelectById(rows, id) ==
    IF id.t = "number" THEN {r \in rows : r.id = id.n} ELSE {}

\* SELECT * FROM users WHERE username = ?
SelectByUsername(rows, username) == {r \in rows : r.username = username}

\* Mutant: WHERE id >= ? : the rows with later ids go as well.
DeleteByIdAndLater(rows, id) ==
    rows \ {r \in rows : id.t = "number" /\ r.id >= id.n}

\* Mutant: the id is bound before it is parsed, and matches no row.
DeleteByIdUnparsed(rows, id) == rows

\* DELETE FROM users WHERE id = ?
DeleteById(rows, id) == rows \ SelectById(rows, id)

\* Mutant: the request is served by the :id route with no id.
DeleteAllNoId(rows) == rows

\* DELETE FROM users
DeleteAll(rows) == {}

\* SELECT * FROM users ORDER BY created_at DESC: every order of the rows in
\* which created_at never increases; rows of one tick come in any order.
OrderByCreatedAtDesc(rows) ==
    {s \in [1..Cardinality(rows) -> rows] :
        /\ \A i, j \in 1..Cardinality(rows) : i # j => s[i] # s[j]
        /\ \A i, j \in 1..Cardinality(rows) :
              i < j => s[i].created_at >= s[j].created_at}

----------------------------------------------------------------------------
(* Requests and responses                                                  *)

Response(status, body) == [status |-> status, body |-> body]

Failure(status, message) ==
    Response(status, [success |-> FALSE, message |-> message])

\* Mutant: the email is not checked.
FieldMissingNoEmail(body) == Falsy(body.username) \/ Falsy(body.age)

\* if (!username || !email || !age)
FieldMissing(body) ==
    Falsy(body.username) \/ Falsy(body.email) \/ Falsy(body.age)

\* Mutant: the bounds themselves are refused.
AgeOutOfRangeExclusive(age) == age.n <= MinAge \/ age.n >= MaxAge

\* if (age < 1 || age > 150)
AgeOutOfRange(age) == age.n < MinAge \/ age.n > MaxAge

\* Mutant: deleting an id no row has is an error.
DeleteResponseNotFound(rows, id) ==
    IF id.t = "number" /\ \E r \in rows : r.id = id.n
    THEN Response(200, [success |-> TRUE, message |-> "User deleted successfully"])
    ELSE Response(404, [success |-> FALSE, message |-> "User not found"])

\* res.json({ success: true, message: 'User deleted successfully' }), whatever
\* rows the DELETE found.
DeleteResponse(rows, id) ==
    Response(200, [success |-> TRUE, message |-> "User deleted successfully"])

Stored == <<db, seq, file, assigned>>

\* The API's clients: the page's form, the test harness, anyone else.
Clients == {"form", "harness", "other"}

\* A client's call: not made, sent, or answered.
Idle == [state |-> "idle"]
Sent(body) == [state |-> "sent", body |-> body]
Answered(body, answer) == [state |-> "answered", body |-> body, answer |-> answer]

\* The creates the clients race with: well-formed, one of them out of range.
RaceBodies ==
    {[username |-> Str(u), email |-> Str(e), age |-> Num(a)] :
        u \in Usernames, e \in Emails, a \in {MinAge, MaxAge + 1}}

----------------------------------------------------------------------------
(* The state machine                                                       *)

NoTexts ==
    [userId |-> <<>>, displayUsername |-> <<>>, displayEmail |-> <<>>,
     displayAge |-> <<>>]

\* The page as loaded, which is how the finally block and the
\* register-another handler leave button, form, message and panel.
InitialPage ==
    [submitDisabled |-> FALSE, submitLabel |-> "Register User",
     formHidden |-> FALSE, infoHidden |-> TRUE, info |-> NoTexts,
     message |-> [hidden |-> TRUE, text |-> "", class |-> ""]]

\* No test runs; createdUserId is declared and not assigned.
NoTest ==
    [suite |-> "none", name |-> "none", pc |-> "idle", createdUserId |-> Undefined,
     created |-> {}, ran |-> {}]

\* initDatabase() with no users.db yet: an empty table, saved at once.
Init ==
    /\ db = {}
    /\ seq = 0
    /\ file = SaveDatabase({}, 0)
    /\ clock = 0
    /\ req = [op |-> "none"]
    /\ resp = Response(0, [success |-> TRUE])
    /\ assigned = {}
    /\ removed = {}
    /\ disk = "ok"
    /\ calls = [c \in Clients |-> Idle]
    /\ ui = InitialPage
    /\ fetches = <<>>
    /\ test = NoTest

\* app.get('/api/users')
GetUsersHandler ==
    /\ req' = [op |-> "GET /api/users"]
    /\ \E users \in OrderByCreatedAtDesc(db) :
          resp' = Response(200, [success |-> TRUE, users |-> users])
    /\ removed' = {}
    /\ UNCHANGED <<Stored, clock, disk>>

\* A client's list request arrives and is served.
GetUsers == GetUsersHandler /\ UNCHANGED clientVars

\* app.get('/api/users/:id')
GetUserByIdHandler(param) ==
    /\ req' = [op |-> "GET /api/users/:id", id |-> param]
    /\ LET result == SelectById(db, ParseInt(param))
       IN  IF result # {}
           THEN \E row \in result :
                   resp' = Response(200, [success |-> TRUE, user |-> row])
           ELSE resp' = Failure(404, "User not found")
    /\ removed' = {}
    /\ UNCHANGED <<Stored, clock, disk>>

\* A client's get-by-id request arrives and is served.
GetUserById(param) == GetUserByIdHandler(param) /\ UNCHANGED clientVars

\* app.get('/api/users/username/:username')
GetUserByUsernameHandler(username) ==
    /\ req' = [op |-> "GET /api/users/username/:username", username |-> username]
    /\ LET result == SelectByUsername(db, username)
       IN  IF result # {}
           THEN \E row \in result :
                   resp' = Response(200, [success |-> TRUE, user |-> row])
           ELSE resp' = Failure(404, "User not found")
    /\ removed' = {}
    /\ UNCHANGED <<Stored, clock, disk>>

\* A client's get-by-username request arrives and is served.
GetUserByUsername(username) == GetUserByUsernameHandler(username) /\ UNCHANGED clientVars

\* Mutant: the store is asked for a conflict before the request is validated.
PostUserHandlerStoreFirst(body) ==
    /\ seq < MaxSeq
    /\ req' = [op |-> "POST /api/users", body |-> body]
    /\ removed' = {}
    /\ IF UniqueConstraintFailed(db, body.username.s, body.email.s)
       THEN /\ resp' = Failure(409, "Username or email already exists")
            /\ UNCHANGED Stored
       ELSE IF FieldMissing(body)
       THEN /\ resp' = Failure(400, "All fields are required")
            /\ UNCHANGED Stored
       ELSE IF AgeOutOfRange(body.age)
       THEN /\ resp' = Failure(400, "Age must be between 1 and 150")
            /\ UNCHANGED Stored
       ELSE LET row == InsertedRow(db, seq, clock, body.username.s,
                                   body.email.s, body.age.n)
            IN  /\ db' = db \cup {row}
                /\ seq' = row.id
                /\ assigned' = assigned \cup {row.id}
                /\ file' = WriteFileSync(disk, file, SaveDatabase(db', seq'))
                /\ IF disk = "ok"
                   THEN \E created \in SelectByUsername(db', body.username.s) :
                           resp' = Response(201,
                                      [success |-> TRUE,
                                       message |-> "User registered successfully",
                                       user |-> created])
                   ELSE resp' = Failure(500, WriteError)
    /\ UNCHANGED <<clock, disk>>

\* app.post('/api/users'), from the request to the response.
PostUserHandler(body) ==
    /\ seq < MaxSeq
    /\ req' = [op |-> "POST /api/users", body |-> body]
    /\ removed' = {}
    /\ IF FieldMissing(body)
       THEN /\ resp' = Failure(400, "All fields are required")
            /\ UNCHANGED Stored
       ELSE IF AgeOutOfRange(body.age)
       THEN /\ resp' = Failure(400, "Age must be between 1 and 150")
            /\ UNCHANGED Stored
       ELSE IF UniqueConstraintFailed(db, body.username.s, body.email.s)
       THEN /\ resp' = Failure(409, "Username or email already exists")
            /\ UNCHANGED Stored
       ELSE LET row == InsertedRow(db, seq, clock, body.username.s,
                                   body.email.s, body.age.n)
            IN  /\ db' = db \cup {row}
                /\ seq' = row.id
                /\ assigned' = assigned \cup {row.id}
                /\ file' = WriteFileSync(disk, file, SaveDatabase(db', seq'))
                /\ IF disk = "ok"
                   THEN \E created \in SelectByUsername(db', body.username.s) :
                           resp' = Response(201,
                                      [success |-> TRUE,
                                       message |-> "User registered successfully",
                                       user |-> created])
                   ELSE resp' = Failure(500, WriteError)
    /\ UNCHANGED <<clock, disk>>

\* A client's create arrives and is served.
PostUser(body) == PostUserHandler(body) /\ UNCHANGED clientVars

\* app.delete('/api/users/:id'), from the request to the response.
DeleteUserHandler(param) ==
    /\ req' = [op |-> "DELETE /api/users/:id", id |-> param]
    /\ removed' = SelectById(db, ParseInt(param))
    /\ db' = DeleteById(db, ParseInt(param))
    /\ file' = WriteFileSync(disk, file, SaveDatabase(db', seq))
    /\ resp' = IF disk = "ok" THEN DeleteResponse(db, ParseInt(param))
                             ELSE Failure(500, WriteError)
    /\ UNCHANGED <<seq, assigned, clock, disk>>

\* A client's delete-by-id arrives and is served.
DeleteUser(param) == DeleteUserHandler(param) /\ UNCHANGED clientVars

\* app.delete('/api/users')
DeleteAllUsers ==
    /\ req' = [op |-> "DELETE /api/users"]
    /\ removed' = db
    /\ db' = DeleteAll(db)
    /\ file' = WriteFileSync(disk, file, SaveDatabase(db', seq))
    /\ resp' = IF disk = "ok"
               THEN Response(200, [success |-> TRUE,
                                   message |-> "All users deleted successfully"])
               ELSE Failure(500, WriteError)
    /\ UNCHANGED <<seq, assigned, clock, disk, clientVars>>

\* The process ends and is started again: initDatabase() finds users.db,
\* loads it, and saves it back.  With the disk full the save throws and the
\* server does not come up.
Restart ==
    /\ disk = "ok"
    /\ db' = file.rows
    /\ seq' = file.seq
    /\ file' = WriteFileSync(disk, file, SaveDatabase(db', seq'))
    /\ UNCHANGED <<clock, req, resp, assigned, removed, disk, clientVars>>

\* Time passes: CURRENT_TIMESTAMP moves on.
Tick ==
    /\ clock < MaxClock
    /\ clock' = clock + 1
    /\ UNCHANGED <<Stored, req, resp, removed, disk, clientVars>>

\* The disk fills up, or space is made on it.
DiskChanges ==
    /\ disk' = IF disk = "ok" THEN "full" ELSE "ok"
    /\ UNCHANGED <<Stored, clock, req, resp, removed, clientVars>>

\* The requests of the API's clients.
Requests ==
    \/ GetUsers
    \/ \E param \in Params : GetUserById(param)
    \/ \E username \in Usernames : GetUserByUsername(username)
    \/ \E username \in UsernameInputs, email \in EmailInputs, age \in AgeInputs :
          PostUser([username |-> username, email |-> email, age |-> age])
    \/ \E param \in Params : DeleteUser(param)
    \/ DeleteAllUsers

Next ==
    \/ Requests
    \/ Restart
    \/ Tick

\* The server on a disk whose writes can fail, with clients that send
\* well-formed creates (an age of 151 among them) and ids in decimal.
NextFault ==
    \/ GetUsers
    \/ \E i \in 1..MaxSeq : GetUserById(ToString(i))
    \/ \E username \in Usernames : GetUserByUsername(username)
    \/ \E username \in Usernames, email \in Emails, age \in {MinAge, MaxAge + 1} :
          PostUser([username |-> Str(username), email |-> Str(email),
                    age |-> Num(age)])
    \/ \E i \in 1..MaxSeq : DeleteUser(ToString(i))
    \/ DeleteAllUsers
    \/ Restart
    \/ Tick
    \/ DiskChanges

\* Client c sends a create; it is on its way to the server.
SendCreate(c, body) ==
    /\ calls[c] = Idle
    /\ calls' = [calls EXCEPT ![c] = Sent(body)]
    /\ UNCHANGED <<Stored, clock, req, resp, removed, disk, ui, fetches, test>>

\* The server takes the create of client c, whichever came first, handles it
\* to the end (the handler is synchronous) and answers.
ServeCreate(c) ==
    /\ calls[c].state = "sent"
    /\ PostUserHandler(calls[c].body)
    /\ calls' = [calls EXCEPT ![c] = Answered(calls[c].body, resp')]
    /\ UNCHANGED <<ui, fetches, test>>

\* Creates of several clients, arriving in any order at a server that
\* starts with an empty table.
NextClients ==
    \/ \E c \in Clients, body \in RaceBodies : SendCreate(c, body)
    \/ \E c \in Clients : ServeCreate(c)
    \/ Tick

----------------------------------------------------------------------------
(* The page (public/app.js)                                                *)

\* What is typed into a field: pieces that are a blank or a word.
UsernameTexts == {<<" ">>, <<" ", "alice", " ">>, <<"bob">>}
EmailTexts == {<<"a@x.io">>, <<"b@x.io">>}
AgeTexts == {<<>>, <<"1", "5", "0">>, <<"1", "5", "1">>}

RECURSIVE TrimStart(_)
TrimStart(s) == IF s # <<>> /\ Head(s) = " " THEN TrimStart(Tail(s)) ELSE s

RECURSIVE TrimEnd(_)
TrimEnd(s) ==
    IF s # <<>> /\ s[Len(s)] = " " THEN TrimEnd(SubSeq(s, 1, Len(s) - 1)) ELSE s

\* value.trim(): the text without the blanks at its ends, as a string (the
\* texts typed here hold one word at most).
Trim(s) ==
    LET inner == TrimEnd(TrimStart(s))
    IN  IF inner = <<>> THEN "" ELSE Head(inner)

\* const formData = { username, email, age }
FormData(usernameText, emailText, ageText) ==
    [username |-> Str(Trim(usernameText)), email |-> Str(Trim(emailText)),
     age |-> ParseInt(ageText)]

\* JSON.stringify(formData): NaN is written as null.
JsonStringify(formData) ==
    [username |-> formData.username, email |-> formData.email,
     age |-> IF formData.age.t = "NaN" THEN Null ELSE formData.age]

\* element.textContent = value : a number is shown in decimal.
TextContent(value) == IF value.t = "number" THEN ToString(value.n) ELSE <<value.s>>

\* Mutant: the button is left enabled while the request is under way.
LeftEnabledWhileRegistering == FALSE

\* submitBtn.disabled = true
DisabledWhileRegistering == TRUE

\* Mutant: the age element is given the id.
UserInfoTextsAgeFromId(user) ==
    [userId |-> TextContent(Num(user.id)),
     displayUsername |-> TextContent(Str(user.username)),
     displayEmail |-> TextContent(Str(user.email)),
     displayAge |-> TextContent(Num(user.id))]

\* The four elements of the user-info panel, from data.user.
UserInfoTexts(user) ==
    [userId |-> TextContent(Num(user.id)),
     displayUsername |-> TextContent(Str(user.username)),
     displayEmail |-> TextContent(Str(user.email)),
     displayAge |-> TextContent(Num(user.age))]

TransportFailureText ==
    "Failed to register user. Please ensure the server is running."

\* Mutant: every failure is shown with the page's own text.
FailureTextOwn(data) == TransportFailureText

\* showMessage(data.message, 'error') : the text is the response's message.
FailureText(data) == data.message

\* showMessage(text, type)
ShowMessage(text, type) ==
    [hidden |-> FALSE, text |-> text, class |-> IF type = "error"
                                                THEN "message error"
                                                ELSE "message success"]

\* The sequence s without its i-th element.
Without(s, i) == SubSeq(s, 1, i - 1) \o SubSeq(s, i + 1, Len(s))

ServerVars == <<Stored, clock, req, resp, removed, disk>>

\* The form is submitted with what was typed: the handler reads the fields,
\* disables the button and calls fetch.  A disabled submit button submits
\* nothing, and a hidden form cannot be filled in.
SubmitHandler(usernameText, emailText, ageText) ==
    /\ ~ui.submitDisabled
    /\ ~ui.formHidden
    /\ Len(fetches) < MaxFetches
    /\ ui' = [ui EXCEPT !.submitDisabled = DisabledWhileRegistering,
                        !.submitLabel = "Registering..."]
    /\ fetches' = Append(fetches,
                    Sent(JsonStringify(FormData(usernameText, emailText, ageText))))
    /\ UNCHANGED <<ServerVars, calls>>

\* Someone at the page submits the form.
Submit(usernameText, emailText, ageText) ==
    SubmitHandler(usernameText, emailText, ageText) /\ UNCHANGED test

\* The server handles the create of the page's i-th fetch and answers.
ServeFetch(i) ==
    /\ fetches[i].state = "sent"
    /\ PostUserHandler(fetches[i].body)
    /\ fetches' = [fetches EXCEPT ![i] = Answered(fetches[i].body, resp')]
    /\ UNCHANGED <<calls, ui, test>>

\* The request does not reach the server, or the answer does not reach the
\* page: fetch rejects.
FetchFails(i) ==
    /\ fetches[i].state \in {"sent", "answered"}
    /\ fetches' = [fetches EXCEPT ![i] = [state |-> "failed", body |-> fetches[i].body]]
    /\ UNCHANGED <<ServerVars, calls, ui, test>>

\* Mutant: the button is enabled again at the end of the try block, which a
\* rejected fetch does not reach.
SettleWithoutFinally(i) ==
    /\ fetches[i].state \in {"answered", "failed"}
    /\ LET shown ==
             IF fetches[i].state = "failed"
             THEN [ui EXCEPT !.message = ShowMessage(TransportFailureText, "error")]
             ELSE IF fetches[i].answer.body.success
             THEN [ui EXCEPT !.formHidden = TRUE,
                             !.message.hidden = TRUE,
                             !.info = UserInfoTexts(fetches[i].answer.body.user),
                             !.infoHidden = FALSE]
             ELSE [ui EXCEPT !.message =
                        ShowMessage(FailureText(fetches[i].answer.body), "error")]
       IN  ui' = IF fetches[i].state = "failed"
                 THEN shown
                 ELSE [shown EXCEPT !.submitDisabled = FALSE,
                                    !.submitLabel = "Register User"]
    /\ fetches' = Without(fetches, i)
    /\ UNCHANGED <<ServerVars, calls, test>>

\* The handler resumes after its awaits: try, catch and finally.
Settle(i) ==
    /\ fetches[i].state \in {"answered", "failed"}
    /\ LET shown ==
             IF fetches[i].state = "failed"
             THEN [ui EXCEPT !.message = ShowMessage(TransportFailureText, "error")]
             ELSE IF fetches[i].answer.body.success
             THEN [ui EXCEPT !.formHidden = TRUE,
                             !.message.hidden = TRUE,
                             !.info = UserInfoTexts(fetches[i].answer.body.user),
                             !.infoHidden = FALSE]
             ELSE [ui EXCEPT !.message =
                        ShowMessage(FailureText(fetches[i].answer.body), "error")]
       IN  ui' = [shown EXCEPT !.submitDisabled = FALSE,
                               !.submitLabel = "Register User"]
    /\ fetches' = Without(fetches, i)
    /\ UNCHANGED <<ServerVars, calls, test>>

\* A click on 'register another': the form is reset and shown, the panel and
\* the message are hidden.
RegisterAnotherHandler ==
    /\ ui' = [ui EXCEPT !.formHidden = FALSE, !.infoHidden = TRUE,
                        !.message.hidden = TRUE]
    /\ UNCHANGED <<ServerVars, calls, fetches>>

\* Someone at the page clicks 'register another'.
RegisterAnother == RegisterAnotherHandler /\ UNCHANGED test

\* The page and the server behind it.
NextUI ==
    \/ \E usernameText \in UsernameTexts, emailText \in EmailTexts,
          ageText \in AgeTexts : Submit(usernameText, emailText, ageText)
    \/ \E i \in DOMAIN fetches : ServeFetch(i)
    \/ \E i \in DOMAIN fetches : FetchFails(i)
    \/ \E i \in DOMAIN fetches : Settle(i)
    \/ RegisterAnother

\* A fetch under way comes to its end: the server answers it, or it is
\* rejected.
FetchCompletes == \E i \in DOMAIN fetches : ServeFetch(i) \/ FetchFails(i)

\* A handler whose await is over is resumed.
HandlerResumes == \E i \in DOMAIN fetches : Settle(i)

\* The page, the server behind it and the server's disk.
NextUIFault == NextUI \/ DiskChanges

----------------------------------------------------------------------------
(* The test suites (cypress and playwright)                                *)

Suites == {"cypress", "playwright"}

\* The tests of a suite, in the order of the file.
TestNames == <<"registration", "byUsername", "list", "duplicate", "age">>

\* The file's number of the test called name.
TestNumber(name) == CHOOSE k \in DOMAIN TestNames : TestNames[k] = name

\* testUser: one for the whole cypress run (Date.now() is read once, when the
\* suite is loaded), one per playwright test (read when the test starts).
TestUser(suite, name) ==
    LET k == IF suite = "cypress" THEN 0 ELSE TestNumber(name)
        stamp == CASE k = 0 -> "0" [] k = 1 -> "1" [] k = 2 -> "2"
                   [] k = 3 -> "3" [] k = 4 -> "4" [] OTHER -> "5"
    IN  [username |-> "testuser_" \o stamp,
         email |-> "test_" \o stamp \o "@example.com",
         age |-> IF name = "age" THEN 200
                 ELSE IF suite = "cypress" THEN 25
                 ELSE CASE name = "registration" -> 25 [] name = "byUsername" -> 30
                        [] name = "list" -> 35 [] OTHER -> 28]

\* `different_${testUser.email}`
DifferentEmail(email) == "different_" \o email

\* beforeEach: the page is loaded anew; a test of the suite that has not run
\* yet starts.
StartTest(suite, name) ==
    /\ test.pc = "idle"
    /\ test.suite \in {"none", suite}
    /\ name \notin test.ran
    /\ test' = [test EXCEPT !.suite = suite, !.name = name, !.pc = "fill",
                            !.created = {}]
    /\ ui' = InitialPage
    /\ fetches' = <<>>
    /\ UNCHANGED <<ServerVars, calls>>

\* The test fills in the form with testUser and clicks submit.
TestSubmit ==
    /\ test.pc = "fill"
    /\ LET testUser == TestUser(test.suite, test.name)
       IN  SubmitHandler(<<testUser.username>>, <<testUser.email>>,
                         ToString(testUser.age))
    /\ test' = [test EXCEPT !.pc = IF test.name = "age" THEN "error" ELSE "panel"]

\* The panel is visible: createdUserId = parseInt(text of #userId).
TestCapture ==
    /\ test.pc = "panel"
    /\ ~ui.infoHidden
    /\ LET id == ParseInt(ui.info.userId)
       IN  test' = [test EXCEPT
                      !.createdUserId = id,
                      !.created = IF id.t = "number" THEN @ \cup {id.n} ELSE @,
                      !.pc = IF test.name = "duplicate" THEN "another" ELSE "verify"]
    /\ UNCHANGED <<ServerVars, calls, ui, fetches>>

\* The duplicate test clicks 'register another'.
TestRegisterAnother ==
    /\ test.pc = "another"
    /\ RegisterAnotherHandler
    /\ test' = [test EXCEPT !.pc = "refill"]

\* The duplicate test submits the same username with another email, age 30.
TestResubmit ==
    /\ test.pc = "refill"
    /\ LET testUser == TestUser(test.suite, test.name)
       IN  SubmitHandler(<<testUser.username>>, <<DifferentEmail(testUser.email)>>,
                         ToString(30))
    /\ test' = [test EXCEPT !.pc = "error"]

\* The test's request to the API, after the panel or the error message is
\* seen; its expectations end the test either way.
TestVerify ==
    /\ \/ test.pc = "verify"
       \/ test.pc = "error" /\ ~ui.message.hidden /\ ui.message.class = "message error"
    /\ LET testUser == TestUser(test.suite, test.name)
       IN  \/ /\ test.name = "registration"
              /\ test.createdUserId.t = "number"
              /\ GetUserByIdHandler(ToString(test.createdUserId.n))
           \/ /\ test.name = "list"
              /\ GetUsersHandler
           \/ /\ test.name \in {"byUsername", "duplicate", "age"}
              /\ GetUserByUsernameHandler(testUser.username)
    /\ test' = [test EXCEPT !.pc = "afterEach"]
    /\ UNCHANGED <<calls, ui, fetches>>

\* What the test waits for does not show in time: the test fails.
TestFails ==
    /\ test.pc \in {"panel", "error"}
    /\ test' = [test EXCEPT !.pc = "afterEach"]
    /\ UNCHANGED <<ServerVars, calls, ui, fetches>>

\* createdUserId = null, which playwright's afterEach has and cypress's has not.
ResetAfterDelete(suite, createdUserId) ==
    IF suite = "playwright" THEN Null ELSE createdUserId

\* afterEach: if (createdUserId) DELETE /api/users/${createdUserId}
AfterEach ==
    /\ test.pc = "afterEach"
    /\ IF ~Falsy(test.createdUserId)
       THEN /\ DeleteUserHandler(ToString(test.createdUserId.n))
            /\ test' = [test EXCEPT
                          !.createdUserId = ResetAfterDelete(test.suite, @),
                          !.pc = "idle", !.ran = @ \cup {test.name}]
       ELSE /\ test' = [test EXCEPT !.pc = "idle", !.ran = @ \cup {test.name}]
            /\ UNCHANGED ServerVars
    /\ UNCHANGED <<calls, ui, fetches>>

\* A suite's tests, run one after another in any order, against the page and
\* the server.
NextTests ==
    \/ \E suite \in Suites, k \in DOMAIN TestNames : StartTest(suite, TestNames[k])
    \/ TestSubmit
    \/ \E i \in DOMAIN fetches : ServeFetch(i)
    \/ \E i \in DOMAIN fetches : Settle(i)
    \/ TestCapture
    \/ TestRegisterAnother
    \/ TestResubmit
    \/ TestVerify
    \/ TestFails
    \/ AfterEach

Spec == Init /\ [][Next]_vars

SpecClients == Init /\ [][NextClients]_vars

SpecUI == Init /\ [][NextUI]_vars

SpecTests == Init /\ [][NextTests]_vars

\* No fetch stays pending for ever, and the event loop resumes every handler
\* whose await is over.
SpecUILive ==
    Init /\ [][NextUIFault]_vars /\ WF_vars(FetchCompletes) /\ WF_vars(HandlerResumes)

SpecFault == Init /\ [][NextFault]_vars

----------------------------------------------------------------------------
(* Properties                                                              *)

\* The step answers a request of kind op.  Tick and Restart leave the last
\* exchange and the table as they are, and a handler that changes none of
\* the three changes nothing at all.
Handled(op) == req'.op = op /\ <<req, resp, db>>' # <<req, resp, db>>

\* A field that is there: a non-empty string.
Present(v) == v.t = "string" /\ v.s # ""
\* An age within the range the API accepts.
InRange(age) == age.t = "number" /\ MinAge <= age.n /\ age.n <= MaxAge
\* An age that is a number outside that range.
OutOfRange(age) == age.t = "number" /\ (age.n < MinAge \/ age.n > MaxAge)
\* A field that is absent, or an empty string.
Absent(v) == v.t \in {"undefined", "null"} \/ (v.t = "string" /\ v.s = "")

Conflict == Failure(409, "Username or email already exists")

\* C1: no two live rows share a username, and no two share an email.
C1_UniqueUsernameAndEmail ==
    \A r, s \in db :
        r # s => r.username # s.username /\ r.email # s.email /\ r.id # s.id

\* C1 witness: two users live after a third was created and deleted.
C1_Witness == Cardinality(db) = 2 /\ Cardinality(assigned) = 3

\* C2 as stated: a create naming a live username, with any email (whatever
\* else it carries), is answered 409 and changes no row.
C2_Original ==
    [][\A u \in Usernames :
          (/\ Handled("POST /api/users")
           /\ req'.body.username = Str(u)
           /\ Present(req'.body.email)
           /\ \E r \in db : r.username = u)
          => resp' = Conflict /\ db' = db]_vars

\* C2 amended: a create naming a live username, with any non-empty email and
\* an age in [1,150], is answered 409 with the conflict message, adds no row
\* and leaves the rows and the file as they were.
C2_DuplicateUsernameConflict ==
    [][\A u \in Usernames :
          (/\ Handled("POST /api/users")
           /\ req'.body.username = Str(u)
           /\ Present(req'.body.email)
           /\ InRange(req'.body.age)
           /\ \E r \in db : r.username = u)
          => /\ resp' = Conflict
             /\ db' = db
             /\ file' = file
             /\ \A r \in db : r.username = u =>
                   \A s \in db' : s.username = u => s.email = r.email]_vars

\* C2 witness: a create with alice's name and another email was refused
\* while alice keeps her first email.
C2_Witness ==
    /\ req.op = "POST /api/users"
    /\ resp = Conflict
    /\ req.body.username = Str("alice")
    /\ req.body.email = Str("b@x.io")
    /\ \E r \in db : r.username = "alice" /\ r.email = "a@x.io"
    /\ \A r \in db : r.email # "b@x.io"

\* C3: a create with a username no row has, the email of a live row and an
\* age in [1,150] is answered 409 with the conflict message, and the rows
\* stay as they were.
C3_DuplicateEmailConflict ==
    [][(/\ Handled("POST /api/users")
        /\ Present(req'.body.username)
        /\ \A r \in db : r.username # req'.body.username.s
        /\ InRange(req'.body.age)
        /\ \E r \in db : Str(r.email) = req'.body.email)
       => resp' = Conflict /\ db' = db /\ file' = file]_vars

\* C3 witness: bob asked for alice's email and was refused; bob has no row.
C3_Witness ==
    /\ req.op = "POST /api/users"
    /\ resp = Conflict
    /\ req.body.username = Str("bob")
    /\ \A r \in db : r.username # "bob"
    /\ \E r \in db : Str(r.email) = req.body.email

\* C4: a create with a non-empty username and email that no row has and an
\* age in [1,150] is answered 201 with a row carrying the three fields, an id
\* never given before and the time of the insert; a get-by-id of that id
\* right after is answered 200 with the same row.
C4_CreateThenGetById ==
    [][/\ (/\ Handled("POST /api/users")
           /\ Present(req'.body.username)
           /\ Present(req'.body.email)
           /\ InRange(req'.body.age)
           /\ \A r \in db : /\ r.username # req'.body.username.s
                            /\ r.email # req'.body.email.s)
          => /\ resp'.status = 201
             /\ resp'.body.success
             /\ resp'.body.user.username = req'.body.username.s
             /\ resp'.body.user.email = req'.body.email.s
             /\ resp'.body.user.age = req'.body.age.n
             /\ resp'.body.user.id \notin assigned
             /\ resp'.body.user.id >= 1
             /\ resp'.body.user.created_at = clock
       /\ (/\ req.op = "POST /api/users"
           /\ resp.status = 201
           /\ Handled("GET /api/users/:id")
           /\ req'.id = ToString(resp.body.user.id))
          => /\ resp'.status = 200
             /\ resp'.body.success
             /\ resp'.body.user = resp.body.user]_vars

\* C4 witness: the user created second was fetched by id, after a tick.
C4_Witness ==
    /\ req.op = "GET /api/users/:id"
    /\ req.id = ToString(2)
    /\ resp.status = 200
    /\ resp.body.user.id = 2
    /\ resp.body.user.created_at = 1
    /\ resp.body.user.age = 150

\* C5: a create with a field absent or empty, or with an age outside [1,150],
\* is answered 400 with success false and leaves the rows, the sequence and
\* the file as they were; a get-by-username of the submitted name right after
\* is answered 404 when no row has that name.
C5_ValidationFailureChangesNothing ==
    [][/\ (/\ Handled("POST /api/users")
           /\ \/ Absent(req'.body.username)
              \/ Absent(req'.body.email)
              \/ Absent(req'.body.age)
              \/ OutOfRange(req'.body.age))
          => /\ resp'.status = 400
             /\ ~resp'.body.success
             /\ db' = db /\ seq' = seq /\ file' = file
       /\ (/\ req.op = "POST /api/users"
           /\ resp.status = 400
           /\ Handled("GET /api/users/username/:username")
           /\ Str(req'.username) = req.body.username
           /\ \A r \in db : r.username # req'.username)
          => resp'.status = 404 /\ ~resp'.body.success]_vars

\* C5 witness: alice asked to register with age 151 while bob is registered;
\* she was refused, has no row, and the file holds what the table holds.
C5_Witness ==
    /\ req.op = "POST /api/users"
    /\ req.body = [username |-> Str("alice"), email |-> Str("a@x.io"),
                   age |-> Num(151)]
    /\ resp.status = 400
    /\ \A r \in db : r.username # "alice"
    /\ \E r \in db : r.username = "bob"
    /\ file = Export(db, seq)

\* C6: a create with a non-empty username and email that no row has and a
\* number as age is answered 201 and adds the row exactly when
\* 1 <= age <= 150; otherwise it is answered 400 and leaves no row behind.
C6_AgeBoundary ==
    [][(/\ Handled("POST /api/users")
        /\ Present(req'.body.username)
        /\ Present(req'.body.email)
        /\ req'.body.age.t = "number"
        /\ \A r \in db : /\ r.username # req'.body.username.s
                         /\ r.email # req'.body.email.s)
       => IF MinAge <= req'.body.age.n /\ req'.body.age.n <= MaxAge
          THEN /\ resp'.status = 201
               /\ \E r \in db' \ db : /\ r.username = req'.body.username.s
                                      /\ r.age = req'.body.age.n
          ELSE /\ resp'.status = 400
               /\ db' = db
               /\ \A r \in db' : r.username # req'.body.username.s]_vars

\* C6 witness: users of age 1 and of age 150 are registered, and a create
\* with age 151 was refused.
C6_Witness ==
    /\ \E r, s \in db : r.age = MinAge /\ s.age = MaxAge
    /\ req.op = "POST /api/users"
    /\ Present(req.body.username) /\ Present(req.body.email)
    /\ req.body.age = Num(MaxAge + 1)
    /\ resp.status = 400

\* C7 as stated: a create that supplies all three fields with an age outside
\* [1,150] is answered with the age-range message, and 'All fields are
\* required' is the answer only when a field is absent or an empty string.
C7_MissingDistinctFromOutOfRange ==
    req.op = "POST /api/users" =>
        /\ (/\ Present(req.body.username)
            /\ Present(req.body.email)
            /\ OutOfRange(req.body.age))
           => resp = Failure(400, "Age must be between 1 and 150")
        /\ resp.body.message = "All fields are required"
           => \/ Absent(req.body.username)
              \/ Absent(req.body.email)
              \/ Absent(req.body.age)

\* C8: a delete-by-id is answered 200 with success true whether or not a row
\* has the id; afterwards no row has it; and the same delete once more is
\* answered alike and leaves the rows, the sequence and the file as the
\* first left them.
C8_DeleteByIdIdempotent ==
    [][/\ req'.op = "DELETE /api/users/:id"
          => /\ resp'.status = 200
             /\ resp'.body.success
             /\ \A i \in 0..(4 * MaxSeq) :
                   req'.id = ToString(i) => \A r \in db' : r.id # i
       /\ (req.op = "DELETE /api/users/:id" /\ req' = req)
          => resp' = resp /\ db' = db /\ seq' = seq /\ file' = file]_vars

\* C8 witness: id 1 was given out, the last request deleted it, and another
\* user is still registered.
C8_Witness ==
    /\ req.op = "DELETE /api/users/:id"
    /\ req.id = ToString(1)
    /\ resp.status = 200
    /\ 1 \in assigned
    /\ db # {}

\* C9: the id of a row that enters the table is larger than every id given
\* out before, deleted rows' ids included, and a row that stays in the table
\* keeps its id and its other fields.
C9_IdsNeverReused ==
    [][/\ \A r \in db' \ db : \A i \in assigned : r.id > i
       /\ \A r \in db' \ db : r.id \in assigned'
       /\ \A s \in db' : (\E r \in db : r.username = s.username) => s \in db
       /\ assigned \subseteq assigned']_vars

\* C9 witness: the only user was created after user 1 was deleted and has
\* id 2.
C9_Witness ==
    /\ req.op = "POST /api/users"
    /\ resp.status = 201
    /\ resp.body.user.id = 2
    /\ db = {resp.body.user}

\* C10: the list is answered 200 with exactly the rows of the table, each
\* once; get-by-id of i is answered 200 with the row of id i when there is
\* one and 404 with success false otherwise; get-by-username likewise.
C10_ReadsReflectLiveSet ==
    /\ req.op = "GET /api/users" =>
          /\ resp.status = 200
          /\ resp.body.success
          /\ Len(resp.body.users) = Cardinality(db)
          /\ {resp.body.users[i] : i \in 1..Len(resp.body.users)} = db
    /\ req.op = "GET /api/users/:id" =>
          \A i \in 0..(4 * MaxSeq) :
              req.id = ToString(i) =>
                  IF \E r \in db : r.id = i
                  THEN /\ resp.status = 200
                       /\ resp.body.success
                       /\ resp.body.user \in db
                       /\ resp.body.user.id = i
                  ELSE resp.status = 404 /\ ~resp.body.success
    /\ req.op = "GET /api/users/username/:username" =>
          IF \E r \in db : r.username = req.username
          THEN /\ resp.status = 200
               /\ resp.body.success
               /\ resp.body.user \in db
               /\ resp.body.user.username = req.username
          ELSE resp.status = 404 /\ ~resp.body.success

\* C10 witness: user 1 was deleted and a get-by-id of 1 is answered 404
\* while another user is registered.
C10_Witness ==
    /\ req.op = "GET /api/users/:id"
    /\ req.id = ToString(1)
    /\ resp.status = 404
    /\ 1 \in assigned
    /\ db # {}

\* C11 as stated: in the list, of any two users the one created later (the
\* one with the larger id) comes first, also when both were created within
\* one tick of the clock.
C11_ListNewestFirst ==
    (req.op = "GET /api/users" /\ resp.status = 200) =>
        \A i, j \in 1..Len(resp.body.users) :
            i < j => resp.body.users[i].id > resp.body.users[j].id

\* C12: when a create, a delete-by-id or a delete-all has been answered with
\* success, users.db holds exactly the table and its sequence, the created
\* row is in the file and the deleted rows are not, so a restart from the
\* file brings back the store as it was acknowledged.
C12_AcknowledgedWritesArePersisted ==
    (/\ req.op \in {"POST /api/users", "DELETE /api/users/:id", "DELETE /api/users"}
     /\ resp.body.success)
    => /\ file = [rows |-> db, seq |-> seq]
       /\ req.op = "POST /api/users" => resp.body.user \in file.rows
       /\ req.op # "POST /api/users" => removed \cap file.rows = {}

\* C12 witness: a second user was registered and acknowledged, the disk has
\* filled up since, and the file holds both users.
C12_Witness ==
    /\ req.op = "POST /api/users"
    /\ resp.status = 201
    /\ Cardinality(file.rows) = 2
    /\ resp.body.user \in file.rows
    /\ file.seq = resp.body.user.id
    /\ disk = "full"

\* C13 as stated: a create answered with a failure (400, 409, or 500 when
\* the save after the insert fails) adds no row to the table, and leaves
\* the table and the file describing the same rows if they did before.
C13_FailedCreateLeavesNothing ==
    [][(Handled("POST /api/users") /\ ~resp'.body.success)
       => /\ db' = db
          /\ db = file.rows => db' = file'.rows]_vars

\* C14: right after a user was deleted, by id or with all the others, a
\* create with that user's username and email and an age in [1,150] is
\* answered 201 with a row of these fields and an id never given before.
C14_DeletedNamesCanBeReused ==
    [][\A r \in removed :
          (/\ req.op \in {"DELETE /api/users/:id", "DELETE /api/users"}
           /\ Handled("POST /api/users")
           /\ req'.body.username = Str(r.username)
           /\ req'.body.email = Str(r.email)
           /\ InRange(req'.body.age))
          => /\ resp'.status = 201
             /\ resp'.body.success
             /\ resp'.body.user.username = r.username
             /\ resp'.body.user.email = r.email
             /\ resp'.body.user.id \notin assigned
             /\ resp'.body.user.id # r.id
             /\ resp'.body.user \in db']_vars

\* C14 witness: two users were registered and deleted, and alice, registered
\* again with her first email, has id 3.
C14_Witness ==
    /\ req.op = "POST /api/users"
    /\ resp.status = 201
    /\ resp.body.user.id = 3
    /\ resp.body.user.username = "alice"
    /\ resp.body.user.email = "a@x.io"
    /\ db = {resp.body.user}

\* C15: a delete-all is answered 200 with success true and leaves no row in
\* the table or the file; right after it the list is empty and every
\* get-by-id and get-by-username is answered 404.
C15_DeleteAllLeavesNoRows ==
    [][/\ req'.op = "DELETE /api/users"
          => /\ resp'.status = 200
             /\ resp'.body.success
             /\ db' = {}
             /\ file'.rows = {}
       /\ (req.op = "DELETE /api/users" /\ Handled("GET /api/users"))
          => resp'.status = 200 /\ resp'.body.users = <<>>
       /\ (/\ req.op = "DELETE /api/users"
           /\ \/ Handled("GET /api/users/:id")
              \/ Handled("GET /api/users/username/:username"))
          => resp'.status = 404 /\ ~resp'.body.success]_vars

\* C15 witness: two users were registered and a delete-all removed both.
C15_Witness ==
    /\ req.op = "DELETE /api/users"
    /\ resp.status = 200
    /\ Cardinality(removed) = 2
    /\ db = {}

\* C16: when the creates that clients have sent to an empty store all carry
\* the same username, or all the same email, with ages in [1,150], then at
\* every moment at most one of them has been answered 201, every other
\* answer is 409, the first answer is the 201, and no two rows share a
\* username or an email.
C16_OneWinnerAmongRacingCreates ==
    LET made == {c \in Clients : calls[c] # Idle}
        done == {c \in made : calls[c].state = "answered"}
        won == {c \in done : calls[c].answer.status = 201}
    IN  /\ \A r, s \in db : r # s => r.username # s.username /\ r.email # s.email
        /\ (/\ \A c \in made : InRange(calls[c].body.age)
            /\ \/ \A c, d \in made : calls[c].body.username = calls[d].body.username
               \/ \A c, d \in made : calls[c].body.email = calls[d].body.email)
           => /\ Cardinality(won) <= 1
              /\ done # {} => Cardinality(won) = 1
              /\ \A c \in done \ won : calls[c].answer = Conflict
              /\ Cardinality(db) = Cardinality(won)

\* C16 witness: three clients sent creates with one email, the form and the
\* harness under different usernames; all are answered, only one with 201.
C16_Witness ==
    /\ \A c \in Clients : calls[c].state = "answered"
    /\ \A c \in Clients : calls[c].body.email = Str("a@x.io")
    /\ \A c \in Clients : InRange(calls[c].body.age)
    /\ calls["form"].body.username # calls["harness"].body.username
    /\ calls["other"].answer.status = 201
    /\ calls["form"].answer.status = 409

\* The page settles its i-th fetch in this step.
Settles(i) ==
    /\ i \in DOMAIN fetches
    /\ fetches[i].state \in {"answered", "failed"}
    /\ fetches' = Without(fetches, i)

\* C17: the page never has two creates under way: while a fetch of the page
\* is sent, answered or failed and not yet settled, it is the only one, and
\* the submit button is disabled and reads 'Registering...'.
C17_OneCreateInFlight ==
    /\ Len(fetches) <= 1
    /\ fetches # <<>> => ui.submitDisabled /\ ui.submitLabel = "Registering..."

\* C17 witness: the page's create has been answered by the server and is not
\* yet settled; the button is disabled.
C17_Witness ==
    /\ Len(fetches) = 1
    /\ fetches[1].state = "answered"
    /\ fetches[1].answer.status = 201
    /\ ui.submitDisabled

\* C18 as stated: after a 201 the panel shows four returned fields, the
\* record's creation timestamp among them.
C18_Original ==
    [][\A i \in DOMAIN fetches :
         (/\ Settles(i)
          /\ fetches[i].state = "answered"
          /\ fetches[i].answer.status = 201)
         => /\ ~ui'.infoHidden
            /\ \E e \in DOMAIN ui'.info :
                 ui'.info[e] = TextContent(Num(fetches[i].answer.body.user.created_at))]_vars

\* C18: a 201 carries the row as it is stored and saved when the create is
\* handled; when the page settles it, the panel is shown in place of the form
\* and its four elements read the response's id, username, email and age.
C18_ShowsReturnedUser ==
    [][\A i \in DOMAIN fetches :
         /\ (/\ fetches[i].state = "sent"
             /\ fetches' = [fetches EXCEPT ![i] = Answered(fetches[i].body, resp')]
             /\ resp'.status = 201)
            => /\ resp'.body.user \in db'
               /\ resp'.body.user \in file'.rows
               /\ resp'.body.user.username = fetches[i].body.username.s
         /\ (/\ Settles(i)
             /\ fetches[i].state = "answered"
             /\ fetches[i].answer.status = 201)
            => LET user == fetches[i].answer.body.user
               IN  /\ ~ui'.infoHidden
                   /\ ui'.formHidden
                   /\ ui'.message.hidden
                   /\ ui'.info.userId = ToString(user.id)
                   /\ ui'.info.displayUsername = <<user.username>>
                   /\ ui'.info.displayEmail = <<user.email>>
                   /\ ui'.info.displayAge = ToString(user.age)]_vars

\* C18 witness: the panel shows the second user, of age 150, whose row with
\* that id, username, email and age is stored.
C18_Witness ==
    /\ ~ui.infoHidden
    /\ ui.info.userId = <<"2">>
    /\ ui.info.displayAge = <<"1", "5", "0">>
    /\ \E r \in db :
         /\ r.id = 2 /\ r.age = 150
         /\ ui.info.displayUsername = <<r.username>>
         /\ ui.info.displayEmail = <<r.email>>

\* C19: when the page settles a create that the server answered with a
\* failure, the message is shown as an error with the response's message
\* text, the form stays and the user-info panel is not shown; a create whose
\* fetch was rejected shows no panel either.
C19_ShowsFailureMessage ==
    [][\A i \in DOMAIN fetches :
         /\ (/\ Settles(i)
             /\ fetches[i].state = "answered"
             /\ fetches[i].answer.status # 201)
            => /\ ui'.message = [hidden |-> FALSE,
                                 text |-> fetches[i].answer.body.message,
                                 class |-> "message error"]
               /\ ui'.infoHidden
               /\ ui'.info = ui.info
               /\ ~ui'.formHidden
         /\ (Settles(i) /\ fetches[i].state = "failed")
            => /\ ~ui'.message.hidden
               /\ ui'.message.class = "message error"
               /\ ui'.infoHidden
               /\ ~ui'.formHidden]_vars

\* C19 witness: the page shows the conflict message of a refused create and
\* no panel, while another user's row is stored.
C19_Witness ==
    /\ ui.message = [hidden |-> FALSE, text |-> Conflict.body.message,
                     class |-> "message error"]
    /\ ui.infoHidden
    /\ fetches = <<>>
    /\ resp = Conflict
    /\ db # {}

\* C20: in both suites, whatever the order of the tests, the DELETE that a
\* test's afterEach issues is for an id this test captured from the panel
\* after its own create, and the rows it removes are rows this test created.
C20_CleanupDeletesOwnRecords ==
    [][(test.pc = "afterEach" /\ test'.pc = "idle")
         => /\ ~Falsy(test.createdUserId) => test.createdUserId.n \in test.created
            /\ \A r \in db \ db' : r.id \in test.created]_vars

\* C21: a create that fails validation (a field absent, or an age that is
\* not within 1..150) is answered 400 and leaves the store alone, also when
\* its username or email is that of a live user; and when a field is absent
\* the answer is 'All fields are required', whatever the age.
C21_ValidationBeforeStore ==
    [][Handled("POST /api/users") =>
         LET body == req'.body
             absent == Absent(body.username) \/ Absent(body.email) \/ Absent(body.age)
         IN  /\ (absent \/ ~InRange(body.age))
                => resp'.status = 400 /\ UNCHANGED Stored
             /\ absent => resp' = Failure(400, "All fields are required")]_vars

\* C21 witness: a create without a username, with a live user's email and
\* age 151, has just been answered 'All fields are required'.
C21_Witness ==
    /\ req.op = "POST /api/users"
    /\ Absent(req.body.username)
    /\ \E r \in db : req.body.email = Str(r.email)
    /\ req.body.age = Num(MaxAge + 1)
    /\ resp = Failure(400, "All fields are required")

\* C22: no step changes a row that stays in the table; a create answered 201
\* adds exactly one row and keeps every other; a delete-by-id removes at most
\* one row, the one with the id of the request, and keeps every other; list,
\* get-by-id and get-by-username change neither the table nor the file.
C22_NoUpdateInPlace ==
    [][/\ \A r \in db' : \A s \in db : r.id = s.id => r = s
       /\ (Handled("POST /api/users") /\ resp'.status = 201)
            => /\ db \subseteq db'
               /\ db' \ db = {resp'.body.user}
               /\ resp'.body.user \notin db
       /\ Handled("DELETE /api/users/:id")
            => /\ db' \subseteq db
               /\ Cardinality(db \ db') <= 1
               /\ \A r \in db \ db' : Num(r.id) = ParseInt(req'.id)
       /\ (\/ Handled("GET /api/users")
           \/ Handled("GET /api/users/:id")
           \/ Handled("GET /api/users/username/:username"))
            => db' = db /\ file' = file]_vars

\* C22 witness: of two users the second was deleted by a request for '2x';
\* the first is in the table and in the file as it was.
C22_Witness ==
    /\ req.op = "DELETE /api/users/:id"
    /\ req.id = <<"2", "x">>
    /\ {r.id : r \in removed} = {2}
    /\ {r.id : r \in db} = {1}
    /\ file.rows = db

\* C23: whenever the submit button is disabled, which is what a submission
\* does first, it is later enabled again and reads 'Register User', whether
\* the create is answered 201, 400, 409 or 500 or its fetch is rejected.
C23_SubmitEnabledAgain ==
    ui.submitDisabled ~> (~ui.submitDisabled /\ ui.submitLabel = "Register User")

\* C23 witness: a create was answered 500 because the file could not be
\* written; the page shows that message and the button is enabled again.
C23_Witness ==
    /\ fetches = <<>>
    /\ ~ui.submitDisabled
    /\ ui.submitLabel = "Register User"
    /\ ui.message = [hidden |-> FALSE, text |-> WriteError, class |-> "message error"]
    /\ resp = Failure(500, WriteError)

====
